---------------------------- MODULE Spec2Model ----------------------------
(***************************************************************************)
(* The Boa compiler (assignment2-boa/solution/src/main.rs): parse_expr     *)
(* turns an S-expression into an Expr, compile_expr turns an Expr into     *)
(* x86-64 instructions, and the emitted code is run on a machine with the  *)
(* registers rax and rbx and the stack slots [rsp - offset].               *)
(*                                                                         *)
(* A Rust panic is modelled as a failure record that every caller passes   *)
(* on unchanged: [ok |-> FALSE, err |-> kind, arg |-> name].               *)
(*                                                                         *)
(* The Adder compiler (assignment1-adder/solution/src/main.rs) is the      *)
(* earlier compiler of the same course: integers, add1, sub1 and negate.   *)
(* It is run on the same term, next to the Boa compiler.                   *)
(***************************************************************************)
EXTENDS Integers, Sequences, FiniteSets, TLC

VARIABLES
    term,      \* the S-expression handed to parse_expr
    env0,      \* the environment compile_expr is called with
    off0,      \* the stack offset compile_expr is called with
    pc,        \* where the pipeline stands
    ast,       \* the result of parse_expr
    asm,       \* the result of compile_expr
    rax,       \* the accumulator after the emitted code has run
    rbx,       \* the scratch register after the emitted code has run
    adder_ast, \* the result of the Adder compiler's parse_expr
    adder_asm  \* the result of the Adder compiler's compile_expr

vars == <<term, env0, off0, pc, ast, asm, rax, rbx, adder_ast, adder_asm>>

(***************************************************************************)
(* Bounds of the model and constants of the program.                       *)
(***************************************************************************)
\* How many times a leaf term is wrapped into a larger term.
MaxDepth == 2

\* One stack slot: current_offset += 8, stack_offset + 8.
SlotSize == 8

\* main compiles with stack offset 8.
FirstOffset == 8

\* i32::MAX, the largest value i32::try_from accepts.
I32Max == 2147483647

(***************************************************************************)
(* Terms: sexp::Sexp.  An integer atom is an i64; it is held as two limbs, *)
(* n = hi * 2^31 + lo with 0 <= lo < 2^31, so that values outside the i32  *)
(* range can be written down.                                              *)
(***************************************************************************)
I64(h, l) == [t |-> "I", hi |-> h, lo |-> l]
IntAtom(n) == I64(0, n)
Sym(name) == [t |-> "S", s |-> name]
Flt == [t |-> "F"]
List(v) == [t |-> "L", v |-> v]

(***************************************************************************)
(* Expr, UnOp, BinOp: the abstract syntax tree.                            *)
(***************************************************************************)
Num(n) == [k |-> "Num", n |-> n]
Var(name) == [k |-> "Var", name |-> name]
Let(bindings, body) == [k |-> "Let", bindings |-> bindings, body |-> body]
UnOp(op, e) == [k |-> "UnOp", op |-> op, e |-> e]
BinOp(op, e1, e2) == [k |-> "BinOp", op |-> op, e1 |-> e1, e2 |-> e2]

\* A panic, and the two successful results.
Panic(kind, name) == [ok |-> FALSE, err |-> kind, arg |-> name]
OkExpr(e) == [ok |-> TRUE, expr |-> e]
OkCode(instrs) == [ok |-> TRUE, code |-> instrs]

\* Nothing computed yet.
NoResult == [ok |-> FALSE, err |-> "none", arg |-> ""]

(***************************************************************************)
(* parse_expr                                                              *)
(***************************************************************************)
RECURSIVE parse_expr(_)
RECURSIVE parse_bindings(_, _, _, _)
RECURSIVE compile_expr(_, _, _)
RECURSIVE compile_bindings(_, _, _, _, _)

\* The names parse_expr refuses as identifiers.
Keywords == {"let", "add1", "sub1", "negate"}

\* i32::try_from(n) wrapping instead of failing (n as i32).
i32_wrapping(s) ==
    IF s.hi % 2 = 0 THEN [ok |-> TRUE, v |-> s.lo]
    ELSE [ok |-> TRUE, v |-> (s.lo - I32Max) - 1]

\* i32::try_from(n): the value when -2^31 <= n <= 2^31 - 1, else an error.
i32_try_from(s) ==
    IF s.hi = 0 THEN [ok |-> TRUE, v |-> s.lo]
    ELSE IF s.hi = -1 THEN [ok |-> TRUE, v |-> (s.lo - I32Max) - 1]
    ELSE [ok |-> FALSE]

\* Sexp::Atom(I(n)) => Expr::Num(i32::try_from(*n).unwrap())
parse_int(s) ==
    LET r == i32_try_from(s)
    IN  IF r.ok THEN OkExpr(Num(r.v)) ELSE Panic("IntegerOverflow", "")

\* Sexp::Atom(S(name))
parse_sym(s) ==
    IF s.s \in Keywords
    THEN Panic("ReservedWordMisuse", s.s)
    ELSE OkExpr(Var(s.s))

\* The checks on one binding name, without the duplicate check.
check_binding_no_dup(name, seen_names) ==
    IF name \in Keywords
    THEN Panic("ReservedWordMisuse", name)
    ELSE [ok |-> TRUE]

\* The checks on one binding name: seen_names.insert, then the keyword match.
check_binding(name, seen_names) ==
    IF name \in seen_names
    THEN Panic("DuplicateBinding", name)
    ELSE IF name \in Keywords
    THEN Panic("ReservedWordMisuse", name)
    ELSE [ok |-> TRUE]

\* [Sexp::Atom(S(name)), expr]
IsPair(binding) ==
    /\ binding.t = "L"
    /\ Len(binding.v) = 2
    /\ binding.v[1].t = "S"

\* for binding in bindings { ... }, from the i-th binding on.
parse_bindings(bindings, i, parsed_bindings, seen_names) ==
    IF i > Len(bindings)
    THEN [ok |-> TRUE, bindings |-> parsed_bindings]
    ELSE IF ~IsPair(bindings[i])
    THEN Panic("MalformedExpression", "")
    ELSE LET name == bindings[i].v[1].s
             c == check_binding(name, seen_names)
         IN  IF ~c.ok THEN c
             ELSE LET e == parse_expr(bindings[i].v[2])
                  IN  IF ~e.ok THEN e
                      ELSE parse_bindings(bindings, i + 1,
                               Append(parsed_bindings,
                                      [name |-> name, expr |-> e.expr]),
                               seen_names \cup {name})

\* [Sexp::Atom(S(keyword)), Sexp::List(bindings), body] if keyword == "let"
IsLetForm(vec) ==
    /\ Len(vec) = 3
    /\ vec[1].t = "S"
    /\ vec[1].s = "let"
    /\ vec[2].t = "L"

\* The let arm without the bindings.is_empty() check.
parse_let_allow_empty(vec) ==
    LET bs == parse_bindings(vec[2].v, 1, <<>>, {})
    IN  IF ~bs.ok THEN bs
        ELSE LET body == parse_expr(vec[3])
             IN  IF ~body.ok THEN body
                 ELSE OkExpr(Let(bs.bindings, body.expr))

\* The let arm: the empty check, the loop over the bindings, then the body.
parse_let(vec) ==
    IF vec[2].v = <<>>
    THEN Panic("EmptyBindingList", "")
    ELSE LET bs == parse_bindings(vec[2].v, 1, <<>>, {})
         IN  IF ~bs.ok THEN bs
             ELSE LET body == parse_expr(vec[3])
                  IN  IF ~body.ok THEN body
                      ELSE OkExpr(Let(bs.bindings, body.expr))

\* [Sexp::Atom(S(op)), e] if op == "add1" | "sub1" | "negate"
IsUnaryForm(vec) ==
    /\ Len(vec) = 2
    /\ vec[1].t = "S"
    /\ vec[1].s \in {"add1", "sub1", "negate"}

UnOpOf(op) ==
    CASE op = "add1" -> "Add1"
      [] op = "sub1" -> "Sub1"
      [] op = "negate" -> "Negate"

parse_unary(vec) ==
    LET e == parse_expr(vec[2])
    IN  IF ~e.ok THEN e ELSE OkExpr(UnOp(UnOpOf(vec[1].s), e.expr))

\* [Sexp::Atom(S(op)), e1, e2] if op == "+" | "-" | "*"
IsBinaryForm(vec) ==
    /\ Len(vec) = 3
    /\ vec[1].t = "S"
    /\ vec[1].s \in {"+", "-", "*"}

BinOpOf(op) ==
    CASE op = "+" -> "Plus"
      [] op = "-" -> "Minus"
      [] op = "*" -> "Times"

parse_binary(vec) ==
    LET e1 == parse_expr(vec[2])
    IN  IF ~e1.ok THEN e1
        ELSE LET e2 == parse_expr(vec[3])
             IN  IF ~e2.ok THEN e2
                 ELSE OkExpr(BinOp(BinOpOf(vec[1].s), e1.expr, e2.expr))

parse_expr(s) ==
    CASE s.t = "I" -> parse_int(s)
      [] s.t = "S" -> parse_sym(s)
      [] s.t = "L" ->
            IF IsLetForm(s.v) THEN parse_let(s.v)
            ELSE IF IsUnaryForm(s.v) THEN parse_unary(s.v)
            ELSE IF IsBinaryForm(s.v) THEN parse_binary(s.v)
            ELSE Panic("MalformedExpression", "")
      [] OTHER -> Panic("MalformedExpression", "")

(***************************************************************************)
(* The instructions compile_expr emits, one per line of assembly.          *)
(***************************************************************************)
LoadImmediate(n) == [op |-> "LoadImmediate", arg |-> n]        \* mov rax, n
LoadFromSlot(o) == [op |-> "LoadFromSlot", arg |-> o]          \* mov rax, [rsp - o]
StoreToSlot(o) == [op |-> "StoreToSlot", arg |-> o]            \* mov [rsp - o], rax
Increment == [op |-> "Increment", arg |-> 0]                   \* add rax, 1
Decrement == [op |-> "Decrement", arg |-> 0]                   \* sub rax, 1
NegateAccumulator == [op |-> "NegateAccumulator", arg |-> 0]   \* imul rax, -1
AddFromSlot(o) == [op |-> "AddFromSlot", arg |-> o]            \* add rax, [rsp - o]
MultiplyFromSlot(o) == [op |-> "MultiplyFromSlot", arg |-> o]  \* imul rax, [rsp - o]
LoadScratch(o) == [op |-> "LoadScratch", arg |-> o]            \* mov rbx, [rsp - o]
SubtractFromScratch == [op |-> "SubtractFromScratch", arg |-> 0] \* sub rbx, rax
MoveScratch == [op |-> "MoveScratch", arg |-> 0]               \* mov rax, rbx

\* The scratch-register subtract pattern: left minus right.
SubtractReversed(o) == <<LoadScratch(o), SubtractFromScratch, MoveScratch>>

(***************************************************************************)
(* Environments: HashMap<String, i32>.                                     *)
(***************************************************************************)
EmptyEnv == [n \in {} |-> 0]

\* env.insert(name, offset)
Insert(env, name, offset) ==
    [n \in DOMAIN env \cup {name} |-> IF n = name THEN offset ELSE env[n]]

(***************************************************************************)
(* compile_expr                                                            *)
(***************************************************************************)
\* Expr::Var(name) with env.get(name).unwrap_or(&0): no panic when unbound.
compile_var_default(name, env) ==
    IF name \in DOMAIN env
    THEN OkCode(<<LoadFromSlot(env[name])>>)
    ELSE OkCode(<<LoadFromSlot(0)>>)

\* Expr::Var(name)
compile_var(name, env) ==
    IF name \in DOMAIN env
    THEN OkCode(<<LoadFromSlot(env[name])>>)
    ELSE Panic("UnboundVariable", name)

RECURSIVE compile_bindings_no_advance(_, _, _, _, _)
RECURSIVE compile_bindings_simultaneous(_, _, _, _, _, _)

\* The loop over the bindings without current_offset += 8.
compile_bindings_no_advance(bindings, i, new_env, current_offset, instrs) ==
    IF i > Len(bindings)
    THEN [ok |-> TRUE, env |-> new_env, offset |-> current_offset,
          code |-> instrs]
    ELSE LET c == compile_expr(bindings[i].expr, new_env, current_offset)
         IN  IF ~c.ok THEN c
             ELSE compile_bindings_no_advance(bindings, i + 1,
                      Insert(new_env, bindings[i].name, current_offset),
                      current_offset,
                      instrs \o c.code \o <<StoreToSlot(current_offset)>>)

\* The loop over the bindings compiling every binding expression with env,
\* the environment of the let, instead of new_env.
compile_bindings_simultaneous(bindings, i, env, new_env, current_offset,
                              instrs) ==
    IF i > Len(bindings)
    THEN [ok |-> TRUE, env |-> new_env, offset |-> current_offset,
          code |-> instrs]
    ELSE LET c == compile_expr(bindings[i].expr, env, current_offset)
         IN  IF ~c.ok THEN c
             ELSE compile_bindings_simultaneous(bindings, i + 1, env,
                      Insert(new_env, bindings[i].name, current_offset),
                      current_offset + SlotSize,
                      instrs \o c.code \o <<StoreToSlot(current_offset)>>)

\* for (name, expr) in bindings { ... }, from the i-th binding on.
compile_bindings(bindings, i, new_env, current_offset, instrs) ==
    IF i > Len(bindings)
    THEN [ok |-> TRUE, env |-> new_env, offset |-> current_offset,
          code |-> instrs]
    ELSE LET c == compile_expr(bindings[i].expr, new_env, current_offset)
         IN  IF ~c.ok THEN c
             ELSE compile_bindings(bindings, i + 1,
                      Insert(new_env, bindings[i].name, current_offset),
                      current_offset + SlotSize,
                      instrs \o c.code \o <<StoreToSlot(current_offset)>>)

\* Expr::Let with a loop that never advances current_offset.
compile_let_no_advance(bindings, body, env, stack_offset) ==
    LET bs == compile_bindings_no_advance(bindings, 1, env, stack_offset,
                                          <<>>)
    IN  IF ~bs.ok THEN bs
        ELSE LET b == compile_expr(body, bs.env, bs.offset)
             IN  IF ~b.ok THEN b ELSE OkCode(bs.code \o b.code)

\* Expr::Let with binding expressions that do not see the earlier bindings.
compile_let_simultaneous(bindings, body, env, stack_offset) ==
    LET bs == compile_bindings_simultaneous(bindings, 1, env, env,
                                            stack_offset, <<>>)
    IN  IF ~bs.ok THEN bs
        ELSE LET b == compile_expr(body, bs.env, bs.offset)
             IN  IF ~b.ok THEN b ELSE OkCode(bs.code \o b.code)

\* Expr::Let(bindings, body)
compile_let(bindings, body, env, stack_offset) ==
    LET bs == compile_bindings(bindings, 1, env, stack_offset, <<>>)
    IN  IF ~bs.ok THEN bs
        ELSE LET b == compile_expr(body, bs.env, bs.offset)
             IN  IF ~b.ok THEN b ELSE OkCode(bs.code \o b.code)

\* The instruction pushed after the operand of a unary operation.
UnaryInstr(op) ==
    CASE op = "Add1" -> Increment
      [] op = "Sub1" -> Decrement
      [] op = "Negate" -> NegateAccumulator

\* Expr::UnOp with the operand compiled one slot further.
compile_unop_shifted(op, expr, env, stack_offset) ==
    LET c == compile_expr(expr, env, stack_offset + SlotSize)
    IN  IF ~c.ok THEN c ELSE OkCode(Append(c.code, UnaryInstr(op)))

\* Expr::UnOp(op, expr)
compile_unop(op, expr, env, stack_offset) ==
    LET c == compile_expr(expr, env, stack_offset)
    IN  IF ~c.ok THEN c ELSE OkCode(Append(c.code, UnaryInstr(op)))

\* The combining instructions with Minus missing its last mov rax, rbx.
CombineInstrs_no_move(op, stack_offset) ==
    CASE op = "Plus" -> <<AddFromSlot(stack_offset)>>
      [] op = "Minus" -> <<LoadScratch(stack_offset), SubtractFromScratch>>
      [] op = "Times" -> <<MultiplyFromSlot(stack_offset)>>

\* The instructions pushed after both operands of a binary operation.
CombineInstrs(op, stack_offset) ==
    CASE op = "Plus" -> <<AddFromSlot(stack_offset)>>
      [] op = "Minus" -> SubtractReversed(stack_offset)
      [] op = "Times" -> <<MultiplyFromSlot(stack_offset)>>

\* Expr::BinOp with the right operand compiled at stack_offset, not + 8.
compile_binop_same_slot(op, e1, e2, env, stack_offset) ==
    LET l == compile_expr(e1, env, stack_offset)
    IN  IF ~l.ok THEN l
        ELSE LET r == compile_expr(e2, env, stack_offset)
             IN  IF ~r.ok THEN r
                 ELSE OkCode(l.code \o <<StoreToSlot(stack_offset)>>
                             \o r.code \o CombineInstrs(op, stack_offset))

\* Expr::BinOp with the right operand evaluated and saved first.
compile_binop_right_first(op, e1, e2, env, stack_offset) ==
    LET r == compile_expr(e2, env, stack_offset)
    IN  IF ~r.ok THEN r
        ELSE LET l == compile_expr(e1, env, stack_offset + SlotSize)
             IN  IF ~l.ok THEN l
                 ELSE OkCode(r.code \o <<StoreToSlot(stack_offset)>>
                             \o l.code \o CombineInstrs(op, stack_offset))

\* Expr::BinOp with a let as left operand that inserts its bindings into the
\* environment of the binary operation instead of into a clone of it.
compile_binop_shared_env(op, e1, e2, env, stack_offset) ==
    LET l == compile_expr(e1, env, stack_offset)
    IN  IF ~l.ok THEN l
        ELSE LET new_env ==
                     IF e1.k = "Let"
                     THEN compile_bindings(e1.bindings, 1, env, stack_offset,
                                           <<>>).env
                     ELSE env
                 r == compile_expr(e2, new_env, stack_offset + SlotSize)
             IN  IF ~r.ok THEN r
                 ELSE OkCode(l.code \o <<StoreToSlot(stack_offset)>>
                             \o r.code \o CombineInstrs(op, stack_offset))

\* Expr::BinOp(op, e1, e2)
compile_binop(op, e1, e2, env, stack_offset) ==
    LET l == compile_expr(e1, env, stack_offset)
    IN  IF ~l.ok THEN l
        ELSE LET r == compile_expr(e2, env, stack_offset + SlotSize)
             IN  IF ~r.ok THEN r
                 ELSE OkCode(l.code \o <<StoreToSlot(stack_offset)>>
                             \o r.code \o CombineInstrs(op, stack_offset))

compile_expr(e, env, stack_offset) ==
    CASE e.k = "Num" -> OkCode(<<LoadImmediate(e.n)>>)
      [] e.k = "Var" -> compile_var(e.name, env)
      [] e.k = "Let" -> compile_let(e.bindings, e.body, env, stack_offset)
      [] e.k = "UnOp" -> compile_unop(e.op, e.e, env, stack_offset)
      [] e.k = "BinOp" -> compile_binop(e.op, e.e1, e.e2, env, stack_offset)

(***************************************************************************)
(* The Adder compiler: its Expr, parse_expr and compile_expr.  An          *)
(* instruction is one line of the string compile_expr returns.             *)
(***************************************************************************)
Add1(e) == [k |-> "Add1", e |-> e]
Sub1(e) == [k |-> "Sub1", e |-> e]
Negate(e) == [k |-> "Negate", e |-> e]

RECURSIVE adder_parse_expr(_)
RECURSIVE adder_compile_expr(_)

\* [Sexp::Atom(S(op)), e]
IsAdderForm(vec) ==
    /\ Len(vec) = 2
    /\ vec[1].t = "S"

adder_parse_expr(s) ==
    CASE s.t = "I" ->
            LET r == i32_try_from(s)
            IN  IF r.ok THEN OkExpr(Num(r.v)) ELSE Panic("IntegerOverflow", "")
      [] s.t = "L" ->
            IF IsAdderForm(s.v) /\ s.v[1].s \in {"add1", "sub1", "negate"}
            THEN LET e == adder_parse_expr(s.v[2])
                 IN  IF ~e.ok THEN e
                     ELSE IF s.v[1].s = "add1" THEN OkExpr(Add1(e.expr))
                     ELSE IF s.v[1].s = "sub1" THEN OkExpr(Sub1(e.expr))
                     ELSE OkExpr(Negate(e.expr))
            ELSE Panic("MalformedExpression", "")
      [] OTHER -> Panic("MalformedExpression", "")

\* compile_expr writing the line of the operation before the operand's code.
adder_compile_expr_operation_first(e) ==
    CASE e.k = "Num" -> <<LoadImmediate(e.n)>>
      [] e.k = "Add1" -> <<Increment>> \o adder_compile_expr(e.e)
      [] e.k = "Sub1" -> <<Decrement>> \o adder_compile_expr(e.e)
      [] e.k = "Negate" -> <<NegateAccumulator>> \o adder_compile_expr(e.e)

adder_compile_expr(e) ==
    CASE e.k = "Num" -> <<LoadImmediate(e.n)>>
      [] e.k = "Add1" -> Append(adder_compile_expr(e.e), Increment)
      [] e.k = "Sub1" -> Append(adder_compile_expr(e.e), Decrement)
      [] e.k = "Negate" -> Append(adder_compile_expr(e.e), NegateAccumulator)

(***************************************************************************)
(* The machine that runs the emitted code: rax, rbx and the stack slots.   *)
(* A slot that was never written, and a register before its first write,   *)
(* hold whatever was there: junk.                                          *)
(***************************************************************************)
Machine(junk) == [rax |-> junk, rbx |-> junk, junk |-> junk,
                  stack |-> [o \in {} |-> 0]]

ReadSlot(m, o) == IF o \in DOMAIN m.stack THEN m.stack[o] ELSE m.junk

WriteSlot(m, o, v) ==
    [m EXCEPT !.stack = [p \in DOMAIN m.stack \cup {o} |->
                            IF p = o THEN v ELSE m.stack[p]]]

ExecInstr(m, ins) ==
    CASE ins.op = "LoadImmediate" -> [m EXCEPT !.rax = ins.arg]
      [] ins.op = "LoadFromSlot" -> [m EXCEPT !.rax = ReadSlot(m, ins.arg)]
      [] ins.op = "StoreToSlot" -> WriteSlot(m, ins.arg, m.rax)
      [] ins.op = "Increment" -> [m EXCEPT !.rax = m.rax + 1]
      [] ins.op = "Decrement" -> [m EXCEPT !.rax = m.rax - 1]
      [] ins.op = "NegateAccumulator" -> [m EXCEPT !.rax = m.rax * (-1)]
      [] ins.op = "AddFromSlot" ->
            [m EXCEPT !.rax = m.rax + ReadSlot(m, ins.arg)]
      [] ins.op = "MultiplyFromSlot" ->
            [m EXCEPT !.rax = m.rax * ReadSlot(m, ins.arg)]
      [] ins.op = "LoadScratch" -> [m EXCEPT !.rbx = ReadSlot(m, ins.arg)]
      [] ins.op = "SubtractFromScratch" -> [m EXCEPT !.rbx = m.rbx - m.rax]
      [] ins.op = "MoveScratch" -> [m EXCEPT !.rax = m.rbx]

RECURSIVE Exec(_, _, _)
Exec(code, i, m) ==
    IF i > Len(code) THEN m ELSE Exec(code, i + 1, ExecInstr(m, code[i]))

(***************************************************************************)
(* The inputs.  Leaves are wrapped MaxDepth times by every form the        *)
(* parser knows (and some it rejects); Examples adds the programs of the   *)
(* tests and of the documentation and the integers at the edge of i32.     *)
(***************************************************************************)
Leaves ==
    {IntAtom(1), IntAtom(2), Sym("x"), Sym("y"), Sym("+"), Sym("add1"),
     I64(1, 0)}

Pair(name, t) == List(<<Sym(name), t>>)
LetTerm(bindings, body) == List(<<Sym("let"), List(bindings), body>>)

\* The forms a term is wrapped in, each named by what it builds around t.
Forms ==
    {"add1", "sub1", "negate", "t+1", "t-1", "t*1", "2+t", "2-t", "2*t",
     "x+t", "t-t", "let x=t in x", "let x=1 in t", "let x=2 y=t in y",
     "let y=1 x=2 in t", "let x=t x=2 in x", "let in t", "(t)", "t*x"}

WrapIn(form, t) ==
    CASE form \in {"add1", "sub1", "negate"} -> List(<<Sym(form), t>>)
      [] form = "t+1" -> List(<<Sym("+"), t, IntAtom(1)>>)
      [] form = "t-1" -> List(<<Sym("-"), t, IntAtom(1)>>)
      [] form = "t*1" -> List(<<Sym("*"), t, IntAtom(1)>>)
      [] form = "2+t" -> List(<<Sym("+"), IntAtom(2), t>>)
      [] form = "2-t" -> List(<<Sym("-"), IntAtom(2), t>>)
      [] form = "2*t" -> List(<<Sym("*"), IntAtom(2), t>>)
      [] form = "x+t" -> List(<<Sym("+"), Sym("x"), t>>)
      [] form = "t-t" -> List(<<Sym("-"), t, t>>)
      [] form = "let x=t in x" -> LetTerm(<<Pair("x", t)>>, Sym("x"))
      [] form = "let x=1 in t" -> LetTerm(<<Pair("x", IntAtom(1))>>, t)
      [] form = "let x=2 y=t in y" ->
            LetTerm(<<Pair("x", IntAtom(2)), Pair("y", t)>>, Sym("y"))
      [] form = "let y=1 x=2 in t" ->
            LetTerm(<<Pair("y", IntAtom(1)), Pair("x", IntAtom(2))>>, t)
      [] form = "let x=t x=2 in x" ->
            LetTerm(<<Pair("x", t), Pair("x", IntAtom(2))>>, Sym("x"))
      [] form = "let in t" -> LetTerm(<<>>, t)
      [] form = "(t)" -> List(<<t>>)
      [] form = "t*x" -> List(<<Sym("*"), t, Sym("x")>>)

\* The sequences of at most MaxDepth forms, innermost first.
Wrappings == UNION {[1..d -> Forms] : d \in 0..MaxDepth}

RECURSIVE Wrapped(_, _, _)
Wrapped(t, forms, i) ==
    IF i > Len(forms) THEN t ELSE Wrapped(WrapIn(forms[i], t), forms, i + 1)

\* (let ((x 5) (y 6)) (+ x (* y 2)))
Example17 ==
    LetTerm(<<Pair("x", IntAtom(5)), Pair("y", IntAtom(6))>>,
            List(<<Sym("+"), Sym("x"),
                   List(<<Sym("*"), Sym("y"), IntAtom(2)>>)>>))

\* (let ((x 1) (y x)) y)
ExampleSequential ==
    LetTerm(<<Pair("x", IntAtom(1)), Pair("y", Sym("x"))>>, Sym("y"))

\* (let ((x 1)) (let ((x 2)) x))
ExampleShadow ==
    LetTerm(<<Pair("x", IntAtom(1))>>,
            LetTerm(<<Pair("x", IntAtom(2))>>, Sym("x")))

\* (let ((x 1) (x 2)) x)
ExampleDuplicate ==
    LetTerm(<<Pair("x", IntAtom(1)), Pair("x", IntAtom(2))>>, Sym("x"))

\* (let ((x 1) (x 2)) z)
ExampleDuplicateUnbound ==
    LetTerm(<<Pair("x", IntAtom(1)), Pair("x", IntAtom(2))>>, Sym("z"))

\* (let ((x (let ((y 1) (y 2)) y)) (x 2)) x)
ExampleDuplicateNested ==
    LetTerm(<<Pair("x", LetTerm(<<Pair("y", IntAtom(1)),
                                  Pair("y", IntAtom(2))>>, Sym("y"))),
              Pair("x", IntAtom(2))>>, Sym("x"))

\* (let ((add1 1)) 2)
ExampleKeywordName == LetTerm(<<Pair("add1", IntAtom(1))>>, IntAtom(2))

\* (let ((+ 1)) +)
ExampleOperatorName == LetTerm(<<Pair("+", IntAtom(1))>>, Sym("+"))

\* (+ (+ 1 (+ 2 3)) 4)
ExampleNestedPlus ==
    List(<<Sym("+"),
           List(<<Sym("+"), IntAtom(1),
                  List(<<Sym("+"), IntAtom(2), IntAtom(3)>>)>>),
           IntAtom(4)>>)

\* 2147483647, -2147483648, -2147483649 and 3 * 2^31 + 5
ExampleIntegers == {I64(0, I32Max), I64(-1, 0), I64(-2, I32Max), I64(3, 5)}

Examples ==
    {Example17, ExampleSequential, ExampleShadow, ExampleDuplicate,
     ExampleDuplicateUnbound, ExampleDuplicateNested, ExampleKeywordName,
     ExampleOperatorName, ExampleNestedPlus,
     Sym("z"), Sym("let"), Flt,
     LetTerm(<<List(<<Sym("x"), IntAtom(1), IntAtom(2)>>)>>, Sym("x")),
     LetTerm(<<Sym("x")>>, Sym("x")),
     List(<<Sym("let"), Sym("x"), IntAtom(1)>>),
     LetTerm(<<Pair("x", I64(0, I32Max))>>, Sym("x"))}
    \cup ExampleIntegers


\* The (environment, stack offset) pairs compile_expr is entered with: main's
\* and the tests' (empty, 8), and those of a call under one or two bindings.
CallContexts ==
    {[env |-> EmptyEnv, off |-> FirstOffset],
     [env |-> Insert(EmptyEnv, "x", FirstOffset),
      off |-> FirstOffset + SlotSize],
     [env |-> Insert(Insert(EmptyEnv, "x", FirstOffset), "y",
                     FirstOffset + SlotSize),
      off |-> FirstOffset + 2 * SlotSize]}

\* What an unwritten slot or register may hold.
Junk == {0, 13}

(***************************************************************************)
(* The pipeline: main parses, compiles and writes the code out; the code   *)
(* is then run.                                                            *)
(***************************************************************************)
Init ==
    /\ \/ term \in Examples
       \/ \E leaf \in Leaves, forms \in Wrappings :
              term = Wrapped(leaf, forms, 1)
    /\ \E c \in CallContexts : env0 = c.env /\ off0 = c.off
    /\ pc = "start"
    /\ ast = NoResult
    /\ asm = NoResult
    /\ rax = 0
    /\ rbx = 0
    /\ adder_ast = NoResult
    /\ adder_asm = NoResult

\* let expr = parse_expr(&sexp);
Build ==
    /\ pc = "start"
    /\ ast' = parse_expr(term)
    /\ pc' = IF ast'.ok THEN "built" ELSE "build_failed"
    /\ UNCHANGED <<term, env0, off0, asm, rax, rbx, adder_ast, adder_asm>>

\* let instrs = compile_expr(&expr, &env, 8);
Generate ==
    /\ pc = "built"
    /\ asm' = compile_expr(ast.expr, env0, off0)
    /\ pc' = IF asm'.ok THEN "compiled" ELSE "compile_failed"
    /\ UNCHANGED <<term, env0, off0, ast, rax, rbx, adder_ast, adder_asm>>

\* our_code_starts_here: the instructions, then ret.
Run ==
    /\ pc = "compiled"
    /\ env0 = EmptyEnv
    /\ off0 = FirstOffset
    /\ \E junk \in Junk :
          LET m == Exec(asm.code, 1, Machine(junk))
          IN  rax' = m.rax /\ rbx' = m.rbx
    /\ pc' = "done"
    /\ UNCHANGED <<term, env0, off0, ast, asm, adder_ast, adder_asm>>

Next == Build \/ Generate \/ Run

Spec == Init /\ [][Next]_vars

(***************************************************************************)
(* The Adder compiler's main on the same term, and the two compilers side  *)
(* by side.                                                                *)
(***************************************************************************)
\* let expr = parse_expr(&sexp);
AdderBuild ==
    /\ adder_ast = NoResult
    /\ adder_ast' = adder_parse_expr(term)
    /\ UNCHANGED <<term, env0, off0, pc, ast, asm, rax, rbx, adder_asm>>

\* let instrs = compile_expr(&expr);
AdderGenerate ==
    /\ adder_ast.ok
    /\ adder_asm = NoResult
    /\ adder_asm' = OkCode(adder_compile_expr(adder_ast.expr))
    /\ UNCHANGED <<term, env0, off0, pc, ast, asm, rax, rbx, adder_ast>>

NextBoth == Build \/ Generate \/ AdderBuild \/ AdderGenerate

SpecBoth == Init /\ [][NextBoth]_vars

(***************************************************************************)
(* What the properties are stated with: the reference evaluator, the free  *)
(* variables of an expression, and the places in the emitted code where a  *)
(* stored value is read.                                                   *)
(***************************************************************************)
RECURSIVE Eval(_, _)
RECURSIVE EvalBindings(_, _, _)
RECURSIVE FreeVars(_, _)
RECURSIVE FreeVarsBindings(_, _, _)
RECURSIVE CodeLen(_)
RECURSIVE CodeLenBindings(_, _)
RECURSIVE Uses(_, _, _)
RECURSIVE UsesBindings(_, _, _, _, _)
RECURSIVE NamesIn(_)

\* The value of e, the variables holding the values venv gives them.
Eval(e, venv) ==
    CASE e.k = "Num" -> e.n
      [] e.k = "Var" -> venv[e.name]
      [] e.k = "Let" -> Eval(e.body, EvalBindings(e.bindings, 1, venv))
      [] e.k = "UnOp" ->
            LET v == Eval(e.e, venv)
            IN  (CASE e.op = "Add1" -> v + 1
                   [] e.op = "Sub1" -> v - 1
                   [] e.op = "Negate" -> 0 - v)
      [] e.k = "BinOp" ->
            LET a == Eval(e.e1, venv)
                b == Eval(e.e2, venv)
            IN  (CASE e.op = "Plus" -> a + b
                   [] e.op = "Minus" -> a - b
                   [] e.op = "Times" -> a * b)

\* let binds one name after the other, each seeing the ones before it.
EvalBindings(bindings, i, venv) ==
    IF i > Len(bindings) THEN venv
    ELSE EvalBindings(bindings, i + 1,
             Insert(venv, bindings[i].name, Eval(bindings[i].expr, venv)))

\* The names e refers to that neither bound nor an enclosing, preceding
\* binding of e binds.
FreeVars(e, bound) ==
    CASE e.k = "Num" -> {}
      [] e.k = "Var" -> IF e.name \in bound THEN {} ELSE {e.name}
      [] e.k = "Let" -> FreeVarsBindings(e, 1, bound)
      [] e.k = "UnOp" -> FreeVars(e.e, bound)
      [] e.k = "BinOp" -> FreeVars(e.e1, bound) \cup FreeVars(e.e2, bound)

FreeVarsBindings(e, i, bound) ==
    IF i > Len(e.bindings) THEN FreeVars(e.body, bound)
    ELSE FreeVars(e.bindings[i].expr, bound)
         \cup FreeVarsBindings(e, i + 1, bound \cup {e.bindings[i].name})

\* How many instructions the code of e has.
CodeLen(e) ==
    CASE e.k = "Num" -> 1
      [] e.k = "Var" -> 1
      [] e.k = "Let" -> CodeLenBindings(e.bindings, 1) + CodeLen(e.body)
      [] e.k = "UnOp" -> CodeLen(e.e) + 1
      [] e.k = "BinOp" ->
            CodeLen(e.e1) + 1 + CodeLen(e.e2)
            + (IF e.op = "Minus" THEN 3 ELSE 1)

CodeLenBindings(bindings, i) ==
    IF i > Len(bindings) THEN 0
    ELSE CodeLen(bindings[i].expr) + 1 + CodeLenBindings(bindings, i + 1)

\* The uses of stored values in the code of e, which starts at index p:
\* [store |-> the index of the instruction that stored the value (0: before
\* the code, a variable of the caller's environment), read |-> the index of
\* the instruction that reads it, name |-> the variable, "" for the spilled
\* left operand of a binary operation].  scope gives, for each variable in
\* scope, the index of the store of its most recent binding.
Uses(e, p, scope) ==
    CASE e.k = "Num" -> {}
      [] e.k = "Var" ->
            IF e.name \in DOMAIN scope
            THEN {[store |-> scope[e.name], read |-> p, name |-> e.name]}
            ELSE {}
      [] e.k = "Let" -> UsesBindings(e.bindings, 1, e.body, p, scope)
      [] e.k = "UnOp" -> Uses(e.e, p, scope)
      [] e.k = "BinOp" ->
            LET s == p + CodeLen(e.e1)
            IN  Uses(e.e1, p, scope)
                \cup {[store |-> s, read |-> s + 1 + CodeLen(e.e2),
                       name |-> ""]}
                \cup Uses(e.e2, s + 1, scope)

UsesBindings(bindings, i, body, p, scope) ==
    IF i > Len(bindings) THEN Uses(body, p, scope)
    ELSE LET s == p + CodeLen(bindings[i].expr)
         IN  Uses(bindings[i].expr, p, scope)
             \cup UsesBindings(bindings, i + 1, body, s + 1,
                               Insert(scope, bindings[i].name, s))

\* The variables and binding names of e.
NamesIn(e) ==
    CASE e.k = "Num" -> {}
      [] e.k = "Var" -> {e.name}
      [] e.k = "Let" ->
            NamesIn(e.body)
            \cup UNION {{e.bindings[i].name} \cup NamesIn(e.bindings[i].expr) :
                        i \in DOMAIN e.bindings}
      [] e.k = "UnOp" -> NamesIn(e.e)
      [] e.k = "BinOp" -> NamesIn(e.e1) \cup NamesIn(e.e2)

\* The code compile_expr returned and the uses in it.
Compiled == pc \in {"compiled", "done"}
Code == asm.code
CallerScope == [n \in DOMAIN env0 |-> 0]
CodeUses == Uses(ast.expr, 1, CallerScope)
SlotOf(u) == IF u.store = 0 THEN env0[u.name] ELSE Code[u.store].arg
IsStore(i) == Code[i].op = "StoreToSlot"
ReadsSlot(i, o) ==
    /\ Code[i].op \in {"LoadFromSlot", "AddFromSlot", "MultiplyFromSlot",
                       "LoadScratch"}
    /\ Code[i].arg = o
InMain == env0 = EmptyEnv /\ off0 = FirstOffset

(***************************************************************************)
(* C1.  Running the code generated in main for an expression that parses   *)
(* and whose variables are all bound leaves the value of the expression in *)
(* rax: let binds sequentially, add1/sub1/negate, +, *, and - as left      *)
(* minus right.  The program Example17 leaves 17.                          *)
(***************************************************************************)
C1_AccumulatorHoldsValue ==
    pc = "done" =>
        /\ rax = Eval(ast.expr, EmptyEnv)
        /\ term = Example17 => rax = 17

C1_Witness == pc = "done" /\ term = Example17 /\ rax = 17

(***************************************************************************)
(* C2.  No slot is stored to between the store of a value (a let binding,  *)
(* a spilled left operand, a variable of the caller) and an instruction    *)
(* that reads that value from the slot.                                    *)
(***************************************************************************)
C2_NoSlotReusedWhileLive ==
    pc = "compiled" =>
        \A u \in CodeUses :
            /\ u.store > 0 => IsStore(u.store)
            /\ ReadsSlot(u.read, SlotOf(u))
            /\ \A i \in (u.store + 1)..(u.read - 1) :
                   ~(IsStore(i) /\ Code[i].arg = SlotOf(u))

\* A value is live across another store: the case the claim is about.
C2_Witness ==
    /\ pc = "compiled"
    /\ \E u \in CodeUses :
           /\ u.store > 0
           /\ \E i \in (u.store + 1)..(u.read - 1) : IsStore(i)
    /\ \E u \in CodeUses : u.name = "" /\ Code[u.read].op = "LoadScratch"
    /\ \E u \in CodeUses : u.name # "" /\ u.store > 0

(***************************************************************************)
(* C3, as claimed.  The offsets of the stores of one generated sequence,   *)
(* in emission order, never decrease.                                      *)
(***************************************************************************)
C3_StoresNeverDecrease ==
    pc = "compiled" =>
        \A i, j \in DOMAIN Code :
            (i < j /\ IsStore(i) /\ IsStore(j)) => Code[i].arg <= Code[j].arg

(***************************************************************************)
(* C3, amended.  Offsets increase along the nesting, not along the whole   *)
(* sequence: every store is at or above the starting offset, and every     *)
(* store emitted while a stored value is still to be read targets a        *)
(* strictly higher offset than that value's slot.                          *)
(***************************************************************************)
C3_StoresIncreaseWhileLive ==
    pc = "compiled" =>
        /\ \A i \in DOMAIN Code : IsStore(i) => Code[i].arg >= off0
        /\ \A u \in CodeUses :
               \A i \in (u.store + 1)..(u.read - 1) :
                   IsStore(i) => Code[i].arg > SlotOf(u)

\* A later store targets a lower offset than an earlier one.
C3_Witness ==
    /\ pc = "compiled"
    /\ \E i, j \in DOMAIN Code :
           i < j /\ IsStore(i) /\ IsStore(j) /\ Code[i].arg > Code[j].arg

(***************************************************************************)
(* C4.  A reserved word (a keyword or a binary operator token) used as a   *)
(* bare atom or as the name of the first binding of a let makes parse_expr *)
(* fail with ReservedWordMisuse(word), and no tree parse_expr returns has  *)
(* a reserved word as a variable or as a binding name.                     *)
(***************************************************************************)
ReservedWords == Keywords \cup {"+", "-", "*"}

FirstBindingName(t) == t.v[2].v[1].v[1].s

HasFirstBinding(t) ==
    /\ t.t = "L"
    /\ IsLetForm(t.v)
    /\ Len(t.v[2].v) > 0
    /\ IsPair(t.v[2].v[1])

C4_ReservedWordsRejected ==
    pc # "start" =>
        /\ (term.t = "S" /\ term.s \in ReservedWords)
               => ast = Panic("ReservedWordMisuse", term.s)
        /\ (HasFirstBinding(term) /\ FirstBindingName(term) \in ReservedWords)
               => ast = Panic("ReservedWordMisuse", FirstBindingName(term))
        /\ ast.ok => NamesIn(ast.expr) \cap ReservedWords = {}

(***************************************************************************)
(* C5.  compile_expr fails exactly when the expression refers to a name    *)
(* that neither the environment nor an enclosing, preceding binding binds; *)
(* it then fails with UnboundVariable of such a name and returns no code.  *)
(***************************************************************************)
C5_UnboundVariableIffFree ==
    pc \in {"compiled", "compile_failed"} =>
        LET free == FreeVars(ast.expr, DOMAIN env0)
        IN  /\ asm.ok <=> free = {}
            /\ asm.ok => DOMAIN asm = {"ok", "code"}
            /\ ~asm.ok =>
                   /\ asm.err = "UnboundVariable"
                   /\ asm.arg \in free
                   /\ DOMAIN asm = {"ok", "err", "arg"}

\* The left operand compiled, the right one is unbound: nothing is returned.
C5_Witness ==
    /\ pc = "compile_failed"
    /\ ast.expr.k = "BinOp"
    /\ compile_expr(ast.expr.e1, env0, off0).ok
    /\ ast.expr.e1.k = "Var"
    /\ asm = Panic("UnboundVariable", "y")

(***************************************************************************)
(* C6, as claimed.  An input with a let form that has two pairs of the     *)
(* same name makes parse_expr fail with DuplicateBinding of such a name,   *)
(* and compile_expr is never entered.                                      *)
(***************************************************************************)
RECURSIVE ContainsDuplicateLet(_)
RECURSIVE DuplicatedNames(_)

PairName(binding) == binding.v[1].s

DuplicateAt(bindings, j) ==
    /\ IsPair(bindings[j])
    /\ \E i \in 1..(j - 1) :
           IsPair(bindings[i]) /\ PairName(bindings[i]) = PairName(bindings[j])

HasDuplicate(t) ==
    /\ t.t = "L"
    /\ IsLetForm(t.v)
    /\ \E j \in DOMAIN t.v[2].v : DuplicateAt(t.v[2].v, j)

FirstDuplicate(bindings) ==
    CHOOSE j \in DOMAIN bindings :
        /\ DuplicateAt(bindings, j)
        /\ \A i \in 1..(j - 1) : ~DuplicateAt(bindings, i)

ContainsDuplicateLet(t) ==
    \/ HasDuplicate(t)
    \/ /\ t.t = "L"
       /\ \E i \in DOMAIN t.v : ContainsDuplicateLet(t.v[i])

\* The names that some let form inside t binds twice.
DuplicatedNames(t) ==
    IF t.t # "L" THEN {}
    ELSE (IF IsLetForm(t.v)
          THEN {PairName(t.v[2].v[j]) :
                    j \in {k \in DOMAIN t.v[2].v : DuplicateAt(t.v[2].v, k)}}
          ELSE {})
         \cup UNION {DuplicatedNames(t.v[i]) : i \in DOMAIN t.v}

C6_DuplicateAlwaysReported ==
    (pc # "start" /\ DuplicatedNames(term) # {}) =>
        /\ pc = "build_failed"
        /\ ast.err = "DuplicateBinding"
        /\ ast.arg \in DuplicatedNames(term)

(***************************************************************************)
(* C6, amended.  An input that contains such a let form never builds, so   *)
(* compile_expr is never entered; the failure is DuplicateBinding of the   *)
(* first repeated name when everything before the repetition passed: the   *)
(* earlier pairs are well-formed, their names are not keywords and their   *)
(* expressions parse.  Otherwise the earlier failure is the one reported.  *)
(***************************************************************************)
C6_DuplicateReportedUnlessEarlierFailure ==
    /\ ContainsDuplicateLet(term) => pc \in {"start", "build_failed"}
    /\ (pc # "start" /\ HasDuplicate(term)) =>
           LET bs == term.v[2].v
               j == FirstDuplicate(bs)
           IN  (\A i \in 1..(j - 1) :
                    /\ IsPair(bs[i])
                    /\ PairName(bs[i]) \notin Keywords
                    /\ parse_expr(bs[i].v[2]).ok)
               => ast = Panic("DuplicateBinding", PairName(bs[j]))

\* The duplicate is reported although the body is an unbound variable.
C6_Witness ==
    /\ pc = "build_failed"
    /\ term = ExampleDuplicateUnbound
    /\ ast = Panic("DuplicateBinding", "x")
    /\ asm = NoResult

(***************************************************************************)
(* C7.  An integer atom n with -2^31 <= n <= 2^31 - 1 parses to Num(n)     *)
(* and compiles to the single instruction LoadImmediate(n), n unchanged;   *)
(* any other integer atom makes parse_expr fail with IntegerOverflow.      *)
(***************************************************************************)
InI32(t) == t.hi \in {-1, 0}

\* The i64 atom of an i32 value.
FromI32(v) == IF v >= 0 THEN I64(0, v) ELSE I64(-1, (v + I32Max) + 1)

C7_IntegerLiteral ==
    (term.t = "I" /\ pc # "start") =>
        /\ InI32(term) =>
               /\ ast.ok
               /\ ast.expr.k = "Num"
               /\ FromI32(ast.expr.n) = term
               /\ pc # "built" =>
                      /\ pc \in {"compiled", "done"}
                      /\ asm = OkCode(<<LoadImmediate(ast.expr.n)>>)
        /\ ~InI32(term) =>
               /\ pc = "build_failed"
               /\ ast = Panic("IntegerOverflow", "")

\* -2^31, the lowest value in range, is loaded as it is.
C7_Witness ==
    /\ pc = "compiled"
    /\ term = I64(-1, 0)
    /\ asm.code = <<LoadImmediate((0 - I32Max) - 1)>>

(***************************************************************************)
(* C8.  A variable is compiled to a load of the slot that the store of its *)
(* most recent binding in scope wrote: a binding expression sees the       *)
(* earlier bindings of its let, and an inner binding shadows an outer one. *)
(***************************************************************************)
C8_VariableLoadsItsBinding ==
    /\ pc = "compiled" =>
           \A u \in CodeUses :
               u.name # "" =>
                   /\ u.store > 0 => IsStore(u.store)
                   /\ Code[u.read] = LoadFromSlot(SlotOf(u))
    /\ (term = ExampleSequential /\ InMain /\ pc \notin {"start", "built"}) =>
           /\ asm.ok
           /\ Code = <<LoadImmediate(1), StoreToSlot(8), LoadFromSlot(8),
                       StoreToSlot(16), LoadFromSlot(16)>>
    /\ (term = ExampleShadow /\ InMain /\ pc \notin {"start", "built"}) =>
           /\ asm.ok
           /\ Code = <<LoadImmediate(1), StoreToSlot(8), LoadImmediate(2),
                       StoreToSlot(16), LoadFromSlot(16)>>

\* The shadowing example, compiled where an outer x already exists.
C8_Witness ==
    /\ pc = "compiled"
    /\ term = ExampleShadow
    /\ "x" \in DOMAIN env0
    /\ Code[Len(Code)] = LoadFromSlot(off0 + SlotSize)

(***************************************************************************)
(* C9.  The code of a unary operation is the code of its operand, compiled *)
(* with the same environment and offset, followed by one instruction:      *)
(* Increment for add1, Decrement for sub1, NegateAccumulator for negate.   *)
(***************************************************************************)
SuffixOf(head) ==
    CASE head = "add1" -> Increment
      [] head = "sub1" -> Decrement
      [] head = "negate" -> NegateAccumulator

C9_UnarySuffix ==
    (pc \in {"compiled", "compile_failed"} /\ ast.expr.k = "UnOp") =>
        LET operand == compile_expr(ast.expr.e, env0, off0)
        IN  operand.ok =>
                asm = OkCode(operand.code \o <<SuffixOf(term.v[1].s)>>)

C9_Witness ==
    /\ pc = "compiled"
    /\ ast.expr.k = "UnOp"
    /\ ast.expr.op = "Negate"
    /\ ast.expr.e.k = "BinOp"
    /\ env0 # EmptyEnv

(***************************************************************************)
(* C10.  The code of a binary operation at offset o is the code of the     *)
(* left operand at o, a store to o, the code of the right operand at       *)
(* o + one slot, and the combining instructions of the operator, which     *)
(* read slot o.                                                            *)
(***************************************************************************)
CombineOf(head, o) ==
    CASE head = "+" -> <<AddFromSlot(o)>>
      [] head = "-" -> <<LoadScratch(o), SubtractFromScratch, MoveScratch>>
      [] head = "*" -> <<MultiplyFromSlot(o)>>

C10_LeftThenRight ==
    (pc \in {"compiled", "compile_failed"} /\ ast.expr.k = "BinOp") =>
        LET left == compile_expr(ast.expr.e1, env0, off0)
            right == compile_expr(ast.expr.e2, env0, off0 + SlotSize)
        IN  (left.ok /\ right.ok) =>
                asm = OkCode(left.code \o <<StoreToSlot(off0)>> \o right.code
                             \o CombineOf(term.v[1].s, off0))

C10_Witness ==
    /\ pc = "compiled"
    /\ ast.expr.k = "BinOp"
    /\ ast.expr.op = "Minus"
    /\ ast.expr.e1.k = "Let"
    /\ Len(asm.code) > 6

(***************************************************************************)
(* C11.  parse_expr applied to a let form whose bindings list is empty     *)
(* fails with EmptyBindingList, whatever the body is (also a body that     *)
(* would fail by itself), and every Let node of a tree parse_expr returns  *)
(* has at least one binding.                                               *)
(***************************************************************************)
RECURSIVE LetsHaveBindings(_)
LetsHaveBindings(e) ==
    CASE e.k = "Num" -> TRUE
      [] e.k = "Var" -> TRUE
      [] e.k = "Let" ->
            /\ Len(e.bindings) >= 1
            /\ \A i \in DOMAIN e.bindings : LetsHaveBindings(e.bindings[i].expr)
            /\ LetsHaveBindings(e.body)
      [] e.k = "UnOp" -> LetsHaveBindings(e.e)
      [] e.k = "BinOp" -> LetsHaveBindings(e.e1) /\ LetsHaveBindings(e.e2)

\* (let () body)
IsEmptyLet(t) ==
    /\ t.t = "L"
    /\ Len(t.v) = 3
    /\ t.v[1].t = "S"
    /\ t.v[1].s = "let"
    /\ t.v[2].t = "L"
    /\ t.v[2].v = <<>>

C11_EmptyBindingListRejected ==
    pc # "start" =>
        /\ IsEmptyLet(term) =>
               pc = "build_failed" /\ ast = Panic("EmptyBindingList", "")
        /\ ast.ok => LetsHaveBindings(ast.expr)

\* An empty let around a body that by itself fails with another error.
C11_Witness ==
    /\ pc = "build_failed"
    /\ IsEmptyLet(term)
    /\ term.v[3] = List(<<Sym("add1"), Sym("add1")>>)
    /\ ~parse_expr(term.v[3]).ok
    /\ ast = Panic("EmptyBindingList", "")

(***************************************************************************)
(* C12.  A let leaves the environment of its caller as it was.  When the   *)
(* right operand of a binary operation is a variable that a let inside the *)
(* left operand binds, the variable is looked up in the environment the    *)
(* binary operation was compiled with: the code loads the slot that        *)
(* environment gives the name, and compile_expr fails with UnboundVariable *)
(* when it gives none.                                                     *)
(***************************************************************************)
RECURSIVE BoundNames(_)
\* The names the lets of e bind.
BoundNames(e) ==
    CASE e.k = "Num" -> {}
      [] e.k = "Var" -> {}
      [] e.k = "Let" ->
            BoundNames(e.body)
            \cup UNION {{e.bindings[i].name} \cup BoundNames(e.bindings[i].expr) :
                        i \in DOMAIN e.bindings}
      [] e.k = "UnOp" -> BoundNames(e.e)
      [] e.k = "BinOp" -> BoundNames(e.e1) \cup BoundNames(e.e2)

\* The tree is a binary operation whose right operand refers to a name that
\* a let of the left operand binds, and the left operand compiles.
ReferenceAfterLet ==
    /\ pc \in {"compiled", "compile_failed"}
    /\ ast.expr.k = "BinOp"
    /\ ast.expr.e2.k = "Var"
    /\ ast.expr.e2.name \in BoundNames(ast.expr.e1)
    /\ FreeVars(ast.expr.e1, DOMAIN env0) = {}

C12_LetLeavesCallerEnvironment ==
    ReferenceAfterLet =>
        LET name == ast.expr.e2.name
        IN  IF name \in DOMAIN env0
            THEN /\ asm.ok
                 /\ Code[CodeLen(ast.expr.e1) + 2] = LoadFromSlot(env0[name])
            ELSE asm = Panic("UnboundVariable", name)

\* The let binds x at the offset of the call while the caller holds x in
\* another slot, and the reference after the let loads the caller's slot.
C12_Witness ==
    /\ ReferenceAfterLet
    /\ ast.expr.e1.k = "Let"
    /\ ast.expr.e1.bindings[1].name = "x"
    /\ ast.expr.e2 = Var("x")
    /\ "x" \in DOMAIN env0
    /\ env0["x"] # off0
    /\ asm.ok
    /\ StoreToSlot(off0) \in {Code[i] : i \in 1..CodeLen(ast.expr.e1)}
    /\ Code[CodeLen(ast.expr.e1) + 2] = LoadFromSlot(env0["x"])

\* The same reference where the caller has no binding of the name.
C12_WitnessUnbound ==
    /\ ReferenceAfterLet
    /\ ast.expr.e1.k = "Let"
    /\ ast.expr.e2.name \notin DOMAIN env0
    /\ asm = Panic("UnboundVariable", ast.expr.e2.name)

(***************************************************************************)
(* C13.  On a term built only from integer atoms and two-element lists     *)
(* headed by add1, sub1 or negate, the Adder compiler and the Boa compiler *)
(* agree: either parse_expr or compile_expr fails in both, or both succeed *)
(* and return the same instructions, whatever environment and offset the   *)
(* Boa compile_expr is called with, the empty environment included.        *)
(***************************************************************************)
RECURSIVE InCommonFragment(_)
InCommonFragment(t) ==
    \/ t.t = "I"
    \/ /\ t.t = "L"
       /\ Len(t.v) = 2
       /\ t.v[1].t = "S"
       /\ t.v[1].s \in {"add1", "sub1", "negate"}
       /\ InCommonFragment(t.v[2])

\* Each compiler has either failed or returned its instructions.
BoaFinished == pc \in {"build_failed", "compile_failed", "compiled"}
AdderFinished == adder_ast # NoResult /\ (adder_ast.ok => adder_asm # NoResult)
BoaFailed == pc \in {"build_failed", "compile_failed"}
AdderFailed == ~adder_ast.ok

C13_AdderAndBoaAgree ==
    (InCommonFragment(term) /\ BoaFinished /\ AdderFinished) =>
        /\ BoaFailed <=> AdderFailed
        /\ ~AdderFailed =>
               /\ asm = adder_asm
               /\ \A c \in CallContexts :
                      compile_expr(ast.expr, EmptyEnv, c.off) = adder_asm

\* A nested term of the fragment that both compile, Boa away from main's
\* offset.
C13_Witness ==
    /\ InCommonFragment(term)
    /\ BoaFinished
    /\ AdderFinished
    /\ term = List(<<Sym("negate"), List(<<Sym("sub1"), IntAtom(2)>>)>>)
    /\ off0 # FirstOffset
    /\ adder_asm = OkCode(<<LoadImmediate(2), Decrement, NegateAccumulator>>)
    /\ asm = adder_asm

\* A term of the fragment that both refuse: an integer outside i32.
C13_WitnessBothFail ==
    /\ InCommonFragment(term)
    /\ term.t = "L"
    /\ BoaFinished
    /\ AdderFinished
    /\ BoaFailed
    /\ AdderFailed

=============================================================================
